---------------------------- MODULE Spec2Model ----------------------------
(***************************************************************************)
(* A model of the mail prioritiser's classification pipeline:              *)
(*   backend/rules.py                 the rule scorer and the sender gate  *)
(*   backend/llm_client.py            the cached LLM classifier            *)
(*   backend/process_and_classify.py  the batch loop and reconciliation    *)
(*   backend/supabase_client.py       the record store (emails table)      *)
(*                                                                         *)
(* Strings are sequences of atoms: an atom is an indivisible piece of text *)
(* (a word, a punctuation mark, a blank).  Python's  a in b  is            *)
(* "a is a contiguous subsequence of b", + is \o, lower() maps every atom  *)
(* to its lower-case form and strip() drops the blanks at both ends.       *)
(*                                                                         *)
(* Python floats are IEEE-754 doubles.  Every double the scorer handles is *)
(* a multiple of 2^-57 below 2 in magnitude, so a double d is the integer  *)
(* d * 2^57, written in base 2^29 as <<hi, lo>> with 0 <= lo < 2^29; an    *)
(* addition is the exact sum rounded to the nearest double, ties to even.  *)
(***************************************************************************)
EXTENDS Integers, Sequences, FiniteSets, TLC

-----------------------------------------------------------------------------
(* IEEE-754 double arithmetic of  score += ... / score -= ...              *)

LimbBase == 2^29

DblNorm(hi, lo) == <<hi + (lo \div LimbBase), lo % LimbBase>>

DblNeg(a) == IF a[2] = 0 THEN <<-a[1], 0>> ELSE <<-a[1] - 1, LimbBase - a[2]>>

DblIsNeg(a) == a[1] < 0

\* a < b and a <= b on doubles
DblLt(a, b) == a[1] < b[1] \/ (a[1] = b[1] /\ a[2] < b[2])

DblLe(a, b) == a = b \/ DblLt(a, b)

\* The number of low bits (of the 2^-57 grid) a double of this magnitude
\* cannot hold: 53 significant bits, so [1,2) keeps multiples of 2^5, ...
DblDropBits(m) ==
    IF m[1] >= 2^28 THEN 5
    ELSE IF m[1] >= 2^27 THEN 4
    ELSE IF m[1] >= 2^26 THEN 3
    ELSE IF m[1] >= 2^25 THEN 2
    ELSE IF m[1] >= 2^24 THEN 1
    ELSE 0

\* A non-negative exact value m, r above a multiple of unit, rounded to the
\* nearest multiple of unit, ties to the even one.
DblRoundTo(m, unit, r) ==
    IF r = 0 THEN m
    ELSE IF 2 * r < unit THEN DblNorm(m[1], m[2] - r)
    ELSE IF 2 * r > unit THEN DblNorm(m[1], m[2] - r + unit)
    ELSE IF ((m[2] - r) \div unit) % 2 = 1 THEN DblNorm(m[1], m[2] - r + unit)
    ELSE DblNorm(m[1], m[2] - r)

DblRoundUnit(m, unit) == DblRoundTo(m, unit, m[2] % unit)

\* Round a non-negative exact value to the nearest double, ties to even.
DblRoundMag(m) == DblRoundUnit(m, 2^DblDropBits(m))

DblRound(x) == IF DblIsNeg(x) THEN DblNeg(DblRoundMag(DblNeg(x))) ELSE DblRoundMag(x)

\* a + b in double arithmetic
DblAdd(a, b) == DblRound(DblNorm(a[1] + b[1], a[2] + b[2]))

\* a - b in double arithmetic
DblSub(a, b) == DblAdd(a, DblNeg(b))

\* The float literals of rules.py and process_and_classify.py
\* (float.hex() of each, times 2^57, in base 2^29).
D_0_0  == <<0, 0>>
D_0_05 == <<13421772, 429496730>>     \* 0x1.999999999999ap-5
D_0_15 == <<40265318, 214748364>>     \* 0x1.3333333333333p-3
D_0_2  == <<53687091, 107374184>>     \* 0x1.999999999999ap-3
D_0_25 == <<67108864, 0>>             \* 0x1.0000000000000p-2
D_0_3  == <<80530636, 429496728>>     \* 0x1.3333333333333p-2
D_0_35 == <<93952409, 322122544>>     \* 0x1.6666666666666p-2
D_0_4  == <<107374182, 214748368>>    \* 0x1.999999999999ap-2
D_0_45 == <<120795955, 107374184>>    \* 0x1.ccccccccccccdp-2
D_0_6  == <<161061273, 322122544>>    \* 0x1.3333333333333p-1
D_0_65 == <<174483046, 214748368>>    \* 0x1.4cccccccccccdp-1
D_0_85 == <<228170137, 322122544>>    \* 0x1.b333333333333p-1
D_1_0  == <<268435456, 0>>            \* 0x1.0000000000000p+0

\* max(0.0, min(1.0, score))
Clamp01(s) ==
    LET m == IF DblLt(D_1_0, s) THEN D_1_0 ELSE s
    IN  IF DblLt(D_0_0, m) THEN m ELSE D_0_0

-----------------------------------------------------------------------------
(* Strings as sequences of atoms                                           *)

\* str.lower() of one atom: the atoms that hold upper-case letters.
LowerTable ==
    [a \in {"Helpdesk", "CDC", "Placement", "Office", "Bob", "VITLIONS2026",
            "Interview", "Nvidia", "PTC", "India", "Kislay", "Tiwari",
            "22BSA10205", "KislayTiwari2022", "Oct"} |->
        CASE a = "Helpdesk"         -> "helpdesk"
          [] a = "CDC"              -> "cdc"
          [] a = "Placement"        -> "placement"
          [] a = "Office"           -> "office"
          [] a = "Bob"              -> "bob"
          [] a = "VITLIONS2026"     -> "vitlions2026"
          [] a = "Interview"        -> "interview"
          [] a = "Nvidia"           -> "nvidia"
          [] a = "PTC"              -> "ptc"
          [] a = "India"            -> "india"
          [] a = "Kislay"           -> "kislay"
          [] a = "Tiwari"           -> "tiwari"
          [] a = "22BSA10205"       -> "22bsa10205"
          [] a = "KislayTiwari2022" -> "kislaytiwari2022"
          [] a = "Oct"              -> "oct"]

LowerAtom(a) == IF a \in DOMAIN LowerTable THEN LowerTable[a] ELSE a

\* s.lower()
Lower(s) == [i \in 1..Len(s) |-> LowerAtom(s[i])]

\* \s of the regular expressions and of str.strip()
IsSpace(a) == a = " "

\* s.strip()
Strip(s) ==
    LET inked == {i \in 1..Len(s) : ~IsSpace(s[i])}
    IN  IF inked = {} THEN <<>>
        ELSE LET first == CHOOSE i \in inked : \A j \in inked : i <= j
                 last  == CHOOSE i \in inked : \A j \in inked : j <= i
             IN  SubSeq(s, first, last)

\* k in text  (Python substring test; the empty string is in every string)
Contains(text, k) ==
    \E i \in 0..(Len(text) - Len(k)) : SubSeq(text, i + 1, i + Len(k)) = k

\* any(k in text for k in ks)
AnyIn(ks, text) == \E n \in 1..Len(ks) : Contains(text, ks[n])

\* Optional[List]: Python's None against a list
None == [some |-> FALSE, val |-> <<>>]

Some(l) == [some |-> TRUE, val |-> l]

\* x or default
OrDefault(x, default) == IF x.some /\ x.val # <<>> THEN x.val ELSE default

-----------------------------------------------------------------------------
(* backend/rules.py                                                        *)

DEFAULT_PLACEMENT_SENDERS ==
    << <<"helpdesk", ".", "cdc", "@", "vit.ac.in">>,
       <<"vitlions2026", "@", "vitbhopal.ac.in">> >>

SUPER_KEYWORDS ==
    << <<"interview">>, <<"interview", " ", "scheduled">>, <<"shortlist">>,
       <<"report", " ", "by">>, <<"join">>, <<"call", " ", "letter">> >>

URGENT_KEYWORDS ==
    << <<"deadline">>, <<"apply", " ", "by">>, <<"registration">>,
       <<"submission">>, <<"application", " ", "deadline">> >>

MID_KEYWORDS ==
    << <<"placement", " ", "drive">>, <<"opportunity">>, <<"internship">>,
       <<"job", " ", "posting">>, <<"drive", " ", "details">> >>

TRASH_KEYWORDS ==
    << <<"congratulations">>, <<"well", " ", "done">>, <<"congrats">>,
       <<"has", " ", "been", " ", "placed">> >>

MY_IDENTIFIERS ==
    << <<"Kislay">>, <<"Kislay", " ", "Tiwari">>, <<"22BSA10205">>,
       <<"kislaytiwari2022", "@", "vitbhopal.ac.in">> >>

\* normalize_email
normalize_email(addr) == IF addr = <<>> THEN <<>> ELSE Lower(Strip(addr))

\* The separators of re.split(r"[,\s]+", header_value)
IsSep(a) == a = "," \/ IsSpace(a)

\* extract_email_from_header
extract_email_from_header(h) ==
    LET \* re.search(r"<([^>]+)>", h): a "<", one or more atoms that are not
        \* ">", then ">"; the leftmost "<" that allows it
        closes(i) == {j \in (i + 1)..Len(h) : h[j] = ">"}
        opens  == {i \in 1..Len(h) :
                      /\ h[i] = "<"
                      /\ closes(i) # {}
                      /\ \A j \in closes(i) : j >= i + 2}
        ats    == {p \in 1..Len(h) : h[p] = "@"}
    IN  IF h = <<>> THEN <<>>
        ELSE IF opens # {} THEN
            LET i == CHOOSE x \in opens : \A y \in opens : x <= y
                j == CHOOSE x \in closes(i) : \A y \in closes(i) : x <= y
            IN  normalize_email(SubSeq(h, i + 1, j - 1))
        ELSE IF ats # {} THEN
            \* the first token of the split that holds an "@"
            LET p  == CHOOSE x \in ats : \A y \in ats : x <= y
                lo == CHOOSE x \in 1..p :
                        /\ \A y \in x..p : ~IsSep(h[y])
                        /\ (x = 1 \/ IsSep(h[x - 1]))
                hi == CHOOSE x \in p..Len(h) :
                        /\ \A y \in p..x : ~IsSep(h[y])
                        /\ (x = Len(h) \/ IsSep(h[x + 1]))
            IN  normalize_email(SubSeq(h, lo, hi))
        ELSE normalize_email(h)

\* \w of the regular expressions: an atom made of word characters
IsWordAtom(a) == a \notin {" ", ",", ".", "@", "<", ">", "!", ":"}

\* \b before and after position i
WordAt(t, i) ==
    /\ (i = 1 \/ ~IsWordAtom(t[i - 1]))
    /\ (i = Len(t) \/ ~IsWordAtom(t[i + 1]))

\* today|tomorrow|tonight
RelativeDayAtoms == {"today", "tomorrow", "tonight"}

\* an atom of the shape \d{1,2}[/-]\d{1,2}(?:[/-]\d{2,4})?
NumericDateAtoms == {"12/10", "5-11-2025"}

\* (?:Jan|Feb|...|Dec)[a-z]* : the pattern's month names are capitalised
MonthAtoms == {"Jan", "Feb", "Mar", "Apr", "May", "Jun", "Jul", "Aug", "Sep",
               "Oct", "Nov", "Dec", "October"}

\* \d{1,2}
DayAtoms == {"5", "12"}

\* contains_date_near: the three patterns are searched in text.lower()
contains_date_near(text) ==
    LET t == Lower(text)
    IN  \/ \E i \in 1..Len(t) : t[i] \in RelativeDayAtoms /\ WordAt(t, i)
        \/ \E i \in 1..Len(t) : t[i] \in NumericDateAtoms /\ WordAt(t, i)
        \/ \E i \in 1..Len(t) : \E j \in (i + 2)..Len(t) :
              /\ t[i] \in MonthAtoms
              /\ (i = 1 \/ ~IsWordAtom(t[i - 1]))
              /\ \A k \in (i + 1)..(j - 1) : IsSpace(t[k])
              /\ t[j] \in DayAtoms
              /\ (j = Len(t) \/ ~IsWordAtom(t[j + 1]))

\* (subject or "") + " " + (body or ""), lower-cased
TextOf(subject, body) == Lower(subject \o <<" ">> \o body)

\* for comp in applied_companies: if comp and comp.lower() in text
CompanyMatches(applied_companies, text) ==
    {n \in 1..Len(applied_companies) :
        /\ applied_companies[n] # <<>>
        /\ Contains(text, Lower(applied_companies[n]))}

\* any(idf.lower() in text for idf in MY_IDENTIFIERS)
PersonalMatch(text) ==
    \E n \in 1..Len(MY_IDENTIFIERS) : Contains(text, Lower(MY_IDENTIFIERS[n]))

\* [normalize_email(x) for x in xs]
LowerStripAll(xs) == [n \in 1..Len(xs) |-> normalize_email(xs[n])]

\* [k.lower() for k in ks]
LowerAll(ks) == [n \in 1..Len(ks) |-> Lower(ks[n])]

\* The arguments of score_email and explain, as one record a:
\*   subject, body, sender_header, to_list   strings
\*   applied_companies                       a list of strings
\*   placement_senders, super_keywords, urgent_keywords, mid_keywords,
\*   trash_keywords                          a list of strings, or None

\* A penalty that is never applied.
SubIfNever(cond, score, w) == score

\* if cond: score += w      if cond: score -= w
AddIf(cond, score, w) == IF cond THEN DblAdd(score, w) ELSE score

SubIf(cond, score, w) == IF cond THEN DblSub(score, w) ELSE score

\* Lines 80-85: the boost of the first tier that has a keyword in the text
KeywordBoost(super_k, urgent_k, mid_k, text) ==
    IF AnyIn(super_k, text) THEN D_0_45
    ELSE IF AnyIn(urgent_k, text) THEN D_0_25
    ELSE IF AnyIn(mid_k, text) THEN D_0_15
    ELSE D_0_0

HasKeyword(super_k, urgent_k, mid_k, text) ==
    AnyIn(super_k, text) \/ AnyIn(urgent_k, text) \/ AnyIn(mid_k, text)

\* score_email, lines 58-104: the sum of the weights, in the code's order
RawScore(a) ==
    LET text         == TextOf(a.subject, a.body)
        sender_email == extract_email_from_header(a.sender_header)
        super_k  == LowerAll(OrDefault(a.super_keywords, SUPER_KEYWORDS))
        urgent_k == LowerAll(OrDefault(a.urgent_keywords, URGENT_KEYWORDS))
        mid_k    == LowerAll(OrDefault(a.mid_keywords, MID_KEYWORDS))
        trash_k  == LowerAll(OrDefault(a.trash_keywords, TRASH_KEYWORDS))
        senders  == IF a.placement_senders.some THEN a.placement_senders.val
                    ELSE DEFAULT_PLACEMENT_SENDERS
        s1 == AddIf(\E n \in 1..Len(senders) :
                        normalize_email(senders[n]) = sender_email,
                    D_0_0, D_0_3)
        s2 == AddIf(a.to_list # <<>>
                        /\ Contains(Lower(a.to_list), <<"kislaytiwari2022">>),
                    s1, D_0_05)
        s3 == AddIf(HasKeyword(super_k, urgent_k, mid_k, text), s2,
                    KeywordBoost(super_k, urgent_k, mid_k, text))
        s4 == AddIf(contains_date_near(text), s3, D_0_15)
        s5 == AddIf(CompanyMatches(a.applied_companies, text) # {}, s4, D_0_35)
        s6 == SubIf(AnyIn(trash_k, text), s5, D_0_6)
    IN  AddIf(PersonalMatch(text), s6, D_0_2)

\* A scorer that returns the sum as it is, without the clamp.
ScoreUnclamped(a) == RawScore(a)

\* score_email
score_email(a) == Clamp01(RawScore(a))

\* classify_from_score
classify_from_score(score) ==
    IF DblLe(D_0_85, score) THEN "super urgent"
    ELSE IF DblLe(D_0_65, score) THEN "urgent"
    ELSE IF DblLe(D_0_4, score) THEN "mid"
    ELSE IF DblLe(D_0_15, score) THEN "low"
    ELSE "trash"

\* The placement-indicator substrings of explain
placement_keywords ==
    << <<"placement">>, <<"placement", " ", "office">>, <<"helpdesk">>,
       <<"cdc">>, <<"placement", "office">> >>

\* A gate that lets every sender through.
GateOpen(a) == TRUE

\* explain, lines 126-141: is_placement
IsPlacement(a) ==
    LET sender_email == extract_email_from_header(a.sender_header)
        senders_norm == LowerStripAll(OrDefault(a.placement_senders,
                                                DEFAULT_PLACEMENT_SENDERS))
    IN  \/ \E n \in 1..Len(senders_norm) : senders_norm[n] = sender_email
        \/ AnyIn(placement_keywords, Lower(a.sender_header))

\* explain, lines 155-176: the reasons, re-derived from the lists as supplied
ExplainReasons(a) ==
    LET text         == TextOf(a.subject, a.body)
        sender_email == extract_email_from_header(a.sender_header)
        senders_norm == LowerStripAll(OrDefault(a.placement_senders,
                                                DEFAULT_PLACEMENT_SENDERS))
        r1 == IF \E n \in 1..Len(senders_norm) :
                    normalize_email(senders_norm[n]) = sender_email
              THEN << <<"sender is placement cell">> >> ELSE <<>>
        r2 == IF AnyIn(a.super_keywords.val, text)
                THEN << <<"super keyword found">> >>
              ELSE IF AnyIn(a.urgent_keywords.val, text)
                THEN << <<"urgent keyword found">> >>
              ELSE IF AnyIn(a.mid_keywords.val, text)
                THEN << <<"mid keyword found">> >>
              ELSE <<>>
        r3 == IF contains_date_near(text)
              THEN << <<"date/time mentioned">> >> ELSE <<>>
        cm == CompanyMatches(a.applied_companies, text)
        r4 == IF cm # {}
              THEN LET n == CHOOSE x \in cm : \A y \in cm : x <= y
                   IN  << <<"applied-company match: ">> \o a.applied_companies[n] >>
              ELSE <<>>
        r5 == IF AnyIn(a.trash_keywords.val, text)
              THEN << <<"congratulatory/trash keyword">> >> ELSE <<>>
        r6 == IF PersonalMatch(text)
              THEN << <<"personal identifier matched">> >> ELSE <<>>
    IN  r1 \o r2 \o r3 \o r4 \o r5 \o r6

\* explain, lines 160-173: iterating a list that is None raises TypeError
ExplainRaises(a) ==
    LET text == TextOf(a.subject, a.body)
    IN  \/ ~a.super_keywords.some
        \/ /\ ~AnyIn(a.super_keywords.val, text)
           /\ \/ ~a.urgent_keywords.some
              \/ /\ ~AnyIn(a.urgent_keywords.val, text)
                 /\ ~a.mid_keywords.some
        \/ ~a.trash_keywords.some

\* explain, lines 153-184: the result for a placement sender with score s
ExplainPlacement(a, s) ==
    [raised |-> FALSE, score |-> s, label |-> classify_from_score(s),
     reasons |-> ExplainReasons(a),
     sender_email |-> extract_email_from_header(a.sender_header),
     is_placement_sender |-> TRUE]

\* explain: raised tells that the call ended in an exception
explain(a) ==
    IF ~IsPlacement(a) THEN
        [raised |-> FALSE, score |-> D_0_0, label |-> "others",
         reasons |-> << <<"sender not in placement-senders allowlist">> >>,
         sender_email |-> extract_email_from_header(a.sender_header),
         is_placement_sender |-> FALSE]
    ELSE IF ExplainRaises(a) THEN
        [raised |-> TRUE, score |-> D_0_0, label |-> "", reasons |-> <<>>,
         sender_email |-> <<>>, is_placement_sender |-> FALSE]
    ELSE ExplainPlacement(a, score_email(a))

-----------------------------------------------------------------------------
(* backend/llm_client.py                                                   *)

\* JSON values, tagged by their Python type
Str(x) == [t |-> "str", v |-> x]

Null == [t |-> "null", v |-> ""]

List == [t |-> "list", v |-> ""]

Num == [t |-> "num", v |-> ""]

EXPECTED_KEYS ==
    {"category", "urgency", "action_required", "deadline", "eligibility",
     "companies", "reason"}

\* A reply object that follows the schema, with the given urgency and reason.
Verdict(urgency, reason) ==
    [k \in EXPECTED_KEYS |->
        CASE k = "category"        -> Str("job_posting")
          [] k = "urgency"         -> urgency
          [] k = "action_required" -> Str("register")
          [] k = "deadline"        -> Null
          [] k = "eligibility"     -> Str("all")
          [] k = "companies"       -> List
          [] k = "reason"          -> reason]

\* The JSON object bodies a provider reply may hold between its braces,
\* by name: json.loads turns "{" body "}" into the dict.
JsonTable ==
    [b \in {"trash", "low", "mid", "urgent", "super_urgent", "null_reason",
            "num_reason", "bad_urgency", "list_urgency", "bad_category",
            "bad_action", "bad_companies", "bad_deadline", "no_reason_key"} |->
        CASE b = "trash"         -> Verdict(Str("trash"), Str("closure notice"))
          [] b = "low"           -> Verdict(Str("low"), Str("general notice"))
          [] b = "mid"           -> Verdict(Str("mid"), Str("drive announced"))
          [] b = "urgent"        -> Verdict(Str("urgent"), Str("deadline close"))
          [] b = "super_urgent"  -> Verdict(Str("super_urgent"), Str("interview soon"))
          [] b = "null_reason"   -> Verdict(Str("urgent"), Null)
          [] b = "num_reason"    -> Verdict(Str("mid"), Num)
          [] b = "bad_urgency"   -> Verdict(Str("high"), Str("deadline close"))
          [] b = "list_urgency"  -> Verdict(List, Str("deadline close"))
          [] b = "bad_category"  ->
                [Verdict(Str("low"), Str("general notice"))
                    EXCEPT !["category"] = Str("newsletter")]
          [] b = "bad_action"    ->
                [Verdict(Str("low"), Str("general notice"))
                    EXCEPT !["action_required"] = Null]
          [] b = "bad_companies" ->
                [Verdict(Str("low"), Str("general notice"))
                    EXCEPT !["companies"] = Str("Nvidia")]
          [] b = "bad_deadline"  ->
                [Verdict(Str("low"), Str("general notice"))
                    EXCEPT !["deadline"] = Num]
          [] b = "no_reason_key" ->
                [k \in EXPECTED_KEYS \ {"reason"} |->
                    Verdict(Str("low"), Null)[k]]]

\* What _call_gemini may answer: it raises, or returns the raw text.
ProviderError == [ok |-> FALSE, raw |-> <<>>]

ProviderText(raw) == [ok |-> TRUE, raw |-> raw]

RawReplies ==
    {<<"{", b, "}">> : b \in DOMAIN JsonTable}
        \cup { <<>>, <<"I cannot help">>, <<"{", "}">>, <<"}", "{">>,
               <<"{", "low">>,
               <<"json", "{", "mid", "}", "Thanks.">>,
               <<"Here it is:", "{", "urgent", "}">>,
               <<"{", "low", "}", "{", "urgent", "}">> }

ProviderResults == {ProviderError} \cup {ProviderText(r) : r \in RawReplies}

\* dicts: the result of a parse, or None
NoDict == [has |-> FALSE, d |-> <<>>]

Dict(d) == [has |-> TRUE, d |-> d]

\* if x:  on an Optional[dict]
Truthy(x) == x.has /\ DOMAIN x.d # {}

\* Lines 176-184 and 225-232: the text from the first "{" to the last "}",
\* parsed by json.loads; None when there is no such text or it is not JSON.
ParseReply(raw) ==
    LET opens  == {i \in 1..Len(raw) : raw[i] = "{"}
        closes == {i \in 1..Len(raw) : raw[i] = "}"}
    IN  IF opens = {} \/ closes = {} THEN NoDict
        ELSE LET start == CHOOSE i \in opens : \A j \in opens : i <= j
                 endp  == CHOOSE i \in closes : \A j \in closes : j <= i
                 text  == SubSeq(raw, start, endp)
             IN  IF ~(endp > start) THEN NoDict
                 ELSE IF text = <<"{", "}">> THEN Dict(<<>>)
                 ELSE IF Len(text) = 3 /\ text[2] \in DOMAIN JsonTable
                      THEN Dict(JsonTable[text[2]])
                 ELSE NoDict

\* validate_llm_output: "ok" (True), "invalid" (False), or "raise": testing
\* an unhashable value (a list) against a set raises TypeError
validate_llm_output(obj) ==
    IF ~(EXPECTED_KEYS \subseteq DOMAIN obj) THEN "invalid"
    ELSE IF obj["urgency"].t = "list" THEN "raise"
    ELSE IF obj["urgency"] \notin
            {Str("super_urgent"), Str("urgent"), Str("mid"), Str("low"), Str("trash")}
         THEN "invalid"
    ELSE IF obj["category"].t = "list" THEN "raise"
    ELSE IF obj["category"] \notin
            {Str("interview"), Str("job_posting"), Str("follow_up"),
             Str("congrats"), Str("other")}
         THEN "invalid"
    ELSE IF obj["action_required"].t = "list" THEN "raise"
    ELSE IF obj["action_required"] \notin
            {Str("none"), Str("reply"), Str("register"), Str("fill_form"),
             Str("confirm_attendance")}
         THEN "invalid"
    ELSE IF obj["companies"].t # "list" THEN "invalid"
    ELSE IF obj["deadline"].t \notin {"null", "str"} THEN "invalid"
    ELSE "ok"

\* The fallback verdict of lines 214 and 239
Fallback ==
    [k \in EXPECTED_KEYS |->
        CASE k = "category"        -> Str("other")
          [] k = "urgency"         -> Str("low")
          [] k = "action_required" -> Str("none")
          [] k = "deadline"        -> Null
          [] k = "eligibility"     -> Str("all")
          [] k = "companies"       -> List
          [] k = "reason"          -> Str("llm-failed-to-parse")]

\* A file of llm_cache/: absent, unreadable as JSON, or a stored dict
FileMissing == [state |-> "missing", d |-> <<>>]

FileCorrupt == [state |-> "corrupt", d |-> <<>>]

FileOf(d) == [state |-> "json", d |-> d]

\* A cache that never answers.
ReadNothing(file) == NoDict

\* _read_cache
_read_cache(file) == IF file.state = "json" THEN Dict(file.d) ELSE NoDict

\* What _write_cache may do to the file: write it, or raise OSError and
\* leave the file as it was or cut short.
WriteResults(file, data) ==
    { [ok |-> TRUE,  file |-> FileOf(data)],
      [ok |-> FALSE, file |-> file],
      [ok |-> FALSE, file |-> FileCorrupt] }

\* What one call of classify_with_llm may come to:
\*   raised        the call ended in an exception (nothing is returned)
\*   ret           the returned dict, or None
\*   calls         the calls made to _call_gemini
\*   file          llm_cache/<message_id>.json after the call
\*   path          how far the call went: "hit" (the cache answered),
\*                 "error" (the first call failed), "first" (the first
\*                 reply was accepted), "repaired" (the second was),
\*                 "fallback_error" / "fallback_invalid" (the repair call
\*                 failed / its reply was rejected), "validate_raised"
\*   write_failed  _write_cache raised
\*   debug_failed  a write of a .raw.txt / .raw2.txt file raised (swallowed)
LlmOutcome(raised, ret, calls, file, path, write_failed, debug_failed) ==
    [raised |-> raised, ret |-> ret, calls |-> calls, file |-> file,
     path |-> path, write_failed |-> write_failed, debug_failed |-> debug_failed]

\* _write_cache(message_id, data); return data
StoreAndReturn(file, data, calls, path, dbg) ==
    { IF w.ok THEN LlmOutcome(FALSE, Dict(data), calls, w.file, path, FALSE, dbg)
      ELSE LlmOutcome(TRUE, NoDict, calls, w.file, path, TRUE, dbg)
      : w \in WriteResults(file, data) }

\* if parsed and validate_llm_output(parsed)
Validity(parsed) ==
    IF Truthy(parsed) THEN validate_llm_output(parsed.d) ELSE "invalid"


\* A variant of the handling of the repair reply that asks the provider a
\* third time when the repair reply is not a valid verdict
AfterRepairReplyRetrying(file, dbg, parsed, valid) ==
    IF valid = "raise"
    THEN { LlmOutcome(TRUE, NoDict, 2, file, "validate_raised", FALSE, dbg) }
    ELSE IF valid = "ok"
    THEN StoreAndReturn(file, parsed.d, 2, "repaired", dbg)
    ELSE StoreAndReturn(file, Fallback, 3, "fallback_invalid", dbg)

\* Lines 225-241: what follows the second reply, parsed
AfterRepairReply(file, dbg, parsed, valid) ==
    IF valid = "raise"
    THEN { LlmOutcome(TRUE, NoDict, 2, file, "validate_raised", FALSE, dbg) }
    ELSE IF valid = "ok"
    THEN StoreAndReturn(file, parsed.d, 2, "repaired", dbg)
    ELSE StoreAndReturn(file, Fallback, 2, "fallback_invalid", dbg)

\* Lines 191-241: the repair call and what follows it
RepairAttempt(file, dbg1) ==
    UNION { UNION {
        IF ~r2.ok
        THEN StoreAndReturn(file, Fallback, 2, "fallback_error", dbg1 \/ ~ok2)
        ELSE AfterRepairReply(file, dbg1 \/ ~ok2, ParseReply(r2.raw),
                              Validity(ParseReply(r2.raw)))
        : ok2 \in BOOLEAN } : r2 \in ProviderResults }

\* Lines 176-241: what follows the first reply, parsed
AfterFirstReply(file, dbg, parsed, valid) ==
    IF valid = "raise"
    THEN { LlmOutcome(TRUE, NoDict, 1, file, "validate_raised", FALSE, dbg) }
    ELSE IF valid = "ok"
    THEN StoreAndReturn(file, parsed.d, 1, "first", dbg)
    ELSE RepairAttempt(file, dbg)


\* A variant of classify_with_llm that stores the fallback verdict in the
\* cache when the first call of the provider fails
ClassifyCachingFailure(file, force) ==
    IF ~force /\ Truthy(_read_cache(file))
    THEN { LlmOutcome(FALSE, _read_cache(file), 0, file, "hit", FALSE, FALSE) }
    ELSE UNION { UNION {
        IF ~r1.ok
        THEN { LlmOutcome(FALSE, NoDict, 1, FileOf(Fallback), "error", FALSE,
                          FALSE) }
        ELSE AfterFirstReply(file, ~ok1, ParseReply(r1.raw),
                             Validity(ParseReply(r1.raw)))
        : ok1 \in BOOLEAN } : r1 \in ProviderResults }

\* classify_with_llm(message_id, subject, snippet, max_tokens, force), given
\* the cache file of message_id.  The prompt only feeds the provider, whose
\* answer is any of ProviderResults.
classify_with_llm(file, force) ==
    IF ~force /\ Truthy(_read_cache(file))
    THEN { LlmOutcome(FALSE, _read_cache(file), 0, file, "hit", FALSE, FALSE) }
    ELSE UNION { UNION {
        IF ~r1.ok
        THEN { LlmOutcome(FALSE, NoDict, 1, file, "error", FALSE, FALSE) }
        ELSE AfterFirstReply(file, ~ok1, ParseReply(r1.raw),
                             Validity(ParseReply(r1.raw)))
        : ok1 \in BOOLEAN } : r1 \in ProviderResults }

-----------------------------------------------------------------------------
(* backend/process_and_classify.py and backend/supabase_client.py          *)

\* The runs of main that are followed.
MaxRuns == 2

\* The Gmail message ids
Ids == {"m1", "m2"}

\* The From headers of the mailbox: on the allowlist, a placement office by
\* its display name only, and neither.
FromAllowlisted == <<"Bob", " ", "<", "VITLIONS2026", "@", "vitbhopal.ac.in", ">">>

FromPlacementName == <<"Placement", " ", "Office", " ", "<", "bob", "@", "other.org", ">">>

FromStranger == <<"Bob", " ", "<", "bob", "@", "other.org", ">">>

\* What fetch_unread returns for a message, but for its id
Message(from, subject, snippet) ==
    [from |-> from, subject |-> subject, snippet |-> snippet]

\* The messages the first id may stand for: one for every label and for
\* both sides of each end of the band 0.45 <= score <= 0.85.
InboxMessages ==
    { Message(FromStranger, <<"Interview">>, <<"tomorrow">>),
      Message(FromAllowlisted, <<>>, <<>>),
      Message(FromAllowlisted, <<>>, <<"congratulations">>),
      Message(FromAllowlisted, <<"internship">>, <<>>),
      Message(FromPlacementName, <<"Interview">>, <<>>),
      Message(FromAllowlisted, <<"deadline">>, <<>>),
      Message(FromAllowlisted, <<"Interview">>, <<>>),
      Message(FromAllowlisted, <<>>, <<"Nvidia", " ", "Kislay">>),
      Message(FromAllowlisted, <<"Interview">>,
              <<"tomorrow", " ", "Nvidia", " ", "congratulations", " ", "Kislay">>),
      Message(FromAllowlisted, <<"Interview">>, <<"tomorrow">>) }

\* The messages the second id may stand for: the rules settle them alone.
SettledMessages ==
    { Message(FromStranger, <<"Interview">>, <<"tomorrow">>),
      Message(FromAllowlisted, <<"Interview">>, <<"tomorrow">>) }

\* The mailboxes followed
Inboxes == {f \in [Ids -> InboxMessages] : f["m2"] \in SettledMessages}

\* load_config and the companies / keywords tables: the configurations followed
\*   keyword_rows  the rows of the keywords table, as <<keyword, type>>
\*   thresholds    the "thresholds" of config.json: the defaults, or other
\*                 values
Configs ==
    { [placement_senders |-> DEFAULT_PLACEMENT_SENDERS,
       applied_companies |-> << <<"Nvidia">>, <<"PTC", " ", "India">> >>,
       thresholds        |-> [super |-> D_0_85, urgent |-> D_0_65,
                              mid |-> D_0_4, low |-> D_0_15],
       keyword_rows      |-> <<>>],
      [placement_senders |-> DEFAULT_PLACEMENT_SENDERS,
       applied_companies |-> << <<"Nvidia">>, <<"PTC", " ", "India">> >>,
       thresholds        |-> [super |-> D_0_85, urgent |-> D_0_6,
                              mid |-> D_0_45, low |-> D_0_2],
       keyword_rows      |-> << << <<"interview">>, "super" >>,
                                << <<"deadline">>, "urgent" >>,
                                << <<"internship">>, "mid" >>,
                                << <<"congratulations">>, "trash" >> >>] }

\* [r["keyword"] for r in keyword_rows if r.get("type") == type]
KeywordsOfType(rows, type) ==
    SelectSeq([n \in 1..Len(rows) |-> IF rows[n][2] = type THEN rows[n][1] ELSE <<"">>],
              LAMBDA k : k # <<"">>)

\* Lines 70-83: the arguments main gives to explain
ExplainArgs(m, c) ==
    [subject |-> m.subject, body |-> m.snippet, sender_header |-> m.from,
     to_list |-> <<>>,
     applied_companies |-> c.applied_companies,
     placement_senders |-> Some(c.placement_senders),
     super_keywords  |-> Some(KeywordsOfType(c.keyword_rows, "super")),
     urgent_keywords |-> Some(KeywordsOfType(c.keyword_rows, "urgent")),
     mid_keywords    |-> Some(KeywordsOfType(c.keyword_rows, "mid")),
     trash_keywords  |-> Some(KeywordsOfType(c.keyword_rows, "trash"))]

\* Line 93
severity_order ==
    [l \in {"super_urgent", "urgent", "mid", "low", "trash"} |->
        CASE l = "super_urgent" -> 4
          [] l = "urgent"       -> 3
          [] l = "mid"          -> 2
          [] l = "low"          -> 1
          [] l = "trash"        -> 0]

\* severity_order.get(label, 0)
SeverityGet(label) ==
    IF label \in DOMAIN severity_order THEN severity_order[label] ELSE 0

\* A band that starts at the threshold of "mid".
NeedsLlmFromMid(e) ==
    e.is_placement_sender /\ DblLe(D_0_4, e.score) /\ DblLe(e.score, D_0_85)

\* Line 89: explanation.get("is_placement_sender") and 0.45<=score<=0.85
NeedsLlm(e) ==
    e.is_placement_sender /\ DblLe(D_0_45, e.score) /\ DblLe(e.score, D_0_85)

\* A reconciliation that takes the model's urgency whenever it differs.
ReconcileAlwaysOverride(label, reasons, llm_res) ==
    LET llm_urgency == llm_res["urgency"].v
        reason      == llm_res["reason"]
        text        == IF reason.t = "str" /\ reason.v # "" THEN <<reason.v>> ELSE <<>>
    IN  IF reason.t = "num"
        THEN [raised |-> TRUE, label |-> label, reasons |-> reasons]
        ELSE IF llm_urgency # label
        THEN [raised |-> FALSE, label |-> llm_urgency,
              reasons |-> Append(reasons, <<"llm_override: ">> \o text)]
        ELSE [raised |-> FALSE, label |-> label,
              reasons |-> Append(reasons, <<"llm_supplement: ">> \o text)]

\* Lines 92-98, for a verdict llm_res (a dict that is not empty).
\* "llm_override: " + (llm_res.get("reason") or "") raises TypeError when the
\* reason is a number.
Reconcile(label, reasons, llm_res) ==
    LET llm_urgency == llm_res["urgency"].v
        reason      == llm_res["reason"]
        text        == IF reason.t = "str" /\ reason.v # "" THEN <<reason.v>> ELSE <<>>
    IN  IF reason.t = "num"
        THEN [raised |-> TRUE, label |-> label, reasons |-> reasons]
        ELSE IF /\ llm_urgency \in DOMAIN severity_order
                /\ SeverityGet(llm_urgency) > SeverityGet(label)
        THEN [raised |-> FALSE, label |-> llm_urgency,
              reasons |-> Append(reasons, <<"llm_override: ">> \o text)]
        ELSE [raised |-> FALSE, label |-> label,
              reasons |-> Append(reasons, <<"llm_supplement: ">> \o text)]

-----------------------------------------------------------------------------
(* The state                                                               *)

VARIABLES
    inbox,            \* Gmail: the message behind each id
    cfg,              \* config.json and the companies / keywords tables
    emails,           \* Supabase: the rows of the emails table, per gmail_id
    llm_cache,        \* llm_cache/<id>.json, per id
    pc,               \* main: "idle" (not running), "loop", "crashed" (an
                      \* exception left main)
    runs,             \* the runs of main started so far
    msgs,             \* main: the messages the for loop has still to visit
    processed,        \* main: processed
    newly_processed,  \* main: newly_processed
    llm_res,          \* main: the local llm_res, unbound until first assigned
    last,             \* what the latest iteration of the loop did: kind
                      \* ("skipped", "stored", "crashed"), the message id,
                      \* what explain returned (rule), whether and how
                      \* classify_with_llm was called (llm_called, llm),
                      \* whether it had been called for this id before
                      \* (again), whether the id had been classified and
                      \* handed to the store before (repeat), the final
                      \* label and reasons, the row
                      \* and whether it was inserted, the messages still
                      \* to visit (pending) and the local llm_res (local)
    llm_first,        \* per id, how the first classify_with_llm call ended
    handled,          \* the ids classified up to insert_email_record, in
                      \* any run
    rule_in,          \* the arguments of a call of explain / score_email
    rule_out          \* the results of that call

vars == <<inbox, cfg, emails, llm_cache, pc, runs, msgs, processed,
          newly_processed, llm_res, last, llm_first, handled, rule_in,
          rule_out>>

batch_vars == <<inbox, cfg, emails, llm_cache, pc, runs, msgs, processed,
                newly_processed, llm_res, last, llm_first, handled>>

rule_vars == <<rule_in, rule_out>>

NotExplained ==
    [raised |-> FALSE, score |-> D_0_0, label |-> "", reasons |-> <<>>,
     sender_email |-> <<>>, is_placement_sender |-> FALSE]

NotCalled == LlmOutcome(FALSE, NoDict, 0, FileMissing, "not_called", FALSE, FALSE)

Unbound == [bound |-> FALSE, val |-> NoDict]

Bound(ret) == [bound |-> TRUE, val |-> ret]

NoRecord ==
    [gmail_id |-> "", category |-> "", score |-> D_0_0, reasons |-> <<>>,
     llm_used |-> FALSE, llm_notes |-> NoDict]

NothingYet ==
    [kind |-> "none", id |-> "", rule |-> NotExplained, llm_called |-> FALSE,
     llm |-> NotCalled, label |-> "", reasons |-> <<>>, db_record |-> NoRecord,
     inserted |-> FALSE, pending |-> <<>>, local |-> Unbound, again |-> FALSE,
     repeat |-> FALSE]

NoCallYet == [called |-> FALSE, raised |-> FALSE, ret |-> NoDict]

NoRuleCall ==
    [subject |-> <<>>, body |-> <<>>, sender_header |-> <<>>, to_list |-> <<>>,
     applied_companies |-> <<>>, placement_senders |-> None,
     super_keywords |-> None, urgent_keywords |-> None, mid_keywords |-> None,
     trash_keywords |-> None]

NoRuleResult ==
    [done |-> FALSE, score |-> D_0_0, label |-> "", explanation |-> NotExplained]

RuleIdle == rule_in = NoRuleCall /\ rule_out = NoRuleResult

-----------------------------------------------------------------------------
(* main                                                                    *)

\* The sequences without repetition over a set of ids: what the Gmail list
\* call may return.
RECURSIVE Listings(_)
Listings(S) ==
    {<<>>} \cup UNION { {<<x>> \o l : l \in Listings(S \ {x})} : x \in S }

\* fetch_processed_ids: the gmail_ids of the stored rows, or [] on an error
FetchProcessedIds(ok) == IF ok THEN {i \in Ids : emails[i] > 0} ELSE {}

\* Lines 38-64: the run starts, reads the processed ids and the unread list.
StartRun ==
    /\ pc \in {"idle", "crashed"}
    /\ runs < MaxRuns
    /\ \E ok \in BOOLEAN, unread \in Listings(Ids) :
          /\ processed' = FetchProcessedIds(ok)
          /\ msgs' = unread
          /\ pc' = IF unread = <<>> THEN "idle" ELSE "loop"
    /\ runs' = runs + 1
    /\ newly_processed' = {}
    /\ llm_res' = Unbound
    /\ last' = NothingYet
    /\ UNCHANGED <<inbox, cfg, emails, llm_cache, llm_first, handled,
                   rule_vars>>

\* Lines 66-69: a message that is in processed is skipped.
SkipProcessed ==
    /\ pc = "loop"
    /\ msgs # <<>>
    /\ Head(msgs) \in processed
    /\ msgs' = Tail(msgs)
    /\ last' = [NothingYet EXCEPT !.kind = "skipped", !.id = Head(msgs),
                                  !.pending = Tail(msgs), !.local = llm_res]
    /\ UNCHANGED <<inbox, cfg, emails, llm_cache, pc, runs, processed,
                   newly_processed, llm_res, llm_first, handled, rule_vars>>

\* Lines 124-138: the row handed to insert_email_record
DbRecord(id, e, label, reasons, local) ==
    [gmail_id |-> id, category |-> label, score |-> e.score, reasons |-> reasons,
     llm_used |-> local.bound /\ Truthy(local.val),
     llm_notes |-> IF local.bound /\ local.val.has THEN local.val ELSE NoDict]

\* An iteration that an exception ended: it left main, nothing was stored.
Crashed(id, e, called, o, local) ==
    { [NothingYet EXCEPT !.kind = "crashed", !.id = id, !.rule = e,
                         !.llm_called = called, !.llm = o, !.local = local] }

\* An iteration that reached insert_email_record, which inserts the row or
\* catches the error and returns None.
Stored(id, e, called, o, label, reasons, local) ==
    { [NothingYet EXCEPT !.kind = "stored", !.id = id, !.rule = e,
                         !.llm_called = called, !.llm = o, !.label = label,
                         !.reasons = reasons,
                         !.db_record = DbRecord(id, e, label, reasons, local),
                         !.inserted = ok, !.local = local]
      : ok \in BOOLEAN }

\* Lines 91-142: the iteration after classify_with_llm returned a verdict
\* and the reconciliation r
AfterVerdict(id, e, o, r) ==
    IF r.raised THEN Crashed(id, e, TRUE, o, Bound(o.ret))
    ELSE Stored(id, e, TRUE, o, r.label, r.reasons, Bound(o.ret))

\* An iteration that notes the LLM in the reasons also when it gave no verdict.
AfterLlmNoting(id, e, o, local) ==
    IF o.raised THEN Crashed(id, e, TRUE, o, local)
    ELSE IF Truthy(o.ret)
    THEN AfterVerdict(id, e, o, Reconcile(e.label, e.reasons, o.ret.d))
    ELSE Stored(id, e, TRUE, o, e.label,
                Append(e.reasons, <<"llm_supplement: ">>), Bound(o.ret))

\* Lines 90-142: the iteration after the outcome o of classify_with_llm
AfterLlm(id, e, o, local) ==
    IF o.raised THEN Crashed(id, e, TRUE, o, local)
    ELSE IF Truthy(o.ret)
    THEN AfterVerdict(id, e, o, Reconcile(e.label, e.reasons, o.ret.d))
    ELSE Stored(id, e, TRUE, o, e.label, e.reasons, Bound(o.ret))

\* Lines 84-142: the iteration after explain returned or raised e
AfterExplain(id, e, file, local) ==
    IF e.raised THEN Crashed(id, e, FALSE, NotCalled, local)
    ELSE IF NeedsLlm(e)
    THEN UNION { AfterLlm(id, e, o, local) : o \in classify_with_llm(file, FALSE) }
    ELSE Stored(id, e, FALSE, NotCalled, e.label, e.reasons, local)

\* Lines 70-142: one iteration of the loop for a message that is not in
\* processed, by every answer of the provider and of the file system.
Iteration(id, m, c, file, local) ==
    AfterExplain(id, explain(ExplainArgs(m, c)), file, local)

\* Lines 65-142: the loop classifies the next message and stores its record.
ClassifyAndStore ==
    /\ pc = "loop"
    /\ msgs # <<>>
    /\ Head(msgs) \notin processed
    /\ LET id == Head(msgs) IN
       \E it \in Iteration(id, inbox[id], cfg, llm_cache[id], llm_res) :
          /\ last' = [it EXCEPT !.pending = Tail(msgs),
                                !.again = it.llm_called /\ llm_first[id].called,
                                !.repeat = id \in handled]
          /\ handled' = IF it.kind = "stored" THEN handled \cup {id}
                        ELSE handled
          /\ llm_res' = it.local
          /\ llm_cache' = IF it.llm_called
                          THEN [llm_cache EXCEPT ![id] = it.llm.file]
                          ELSE llm_cache
          /\ llm_first' = IF it.llm_called /\ ~llm_first[id].called
                          THEN [llm_first EXCEPT ![id] =
                                  [called |-> TRUE, raised |-> it.llm.raised,
                                   ret |-> it.llm.ret]]
                          ELSE llm_first
          /\ pc' = IF it.kind = "crashed" THEN "crashed" ELSE "loop"
          /\ msgs' = IF it.kind = "crashed" THEN <<>> ELSE Tail(msgs)
          /\ emails' = IF it.kind = "stored" /\ it.inserted
                       THEN [emails EXCEPT ![id] = @ + 1]
                       ELSE emails
          /\ newly_processed' = IF it.kind = "stored"
                                THEN newly_processed \cup {id}
                                ELSE newly_processed
    /\ UNCHANGED <<inbox, cfg, runs, processed, rule_vars>>

\* Lines 144-148: the loop is over, main returns.
FinishRun ==
    /\ pc = "loop"
    /\ msgs = <<>>
    /\ pc' = "idle"
    /\ UNCHANGED <<inbox, cfg, emails, llm_cache, runs, msgs, processed,
                   newly_processed, llm_res, last, llm_first, handled,
                   rule_vars>>

Init ==
    /\ inbox \in Inboxes
    /\ cfg \in Configs
    /\ emails = [i \in Ids |-> 0]
    /\ llm_cache = [i \in Ids |-> FileMissing]
    /\ pc = "idle"
    /\ runs = 0
    /\ msgs = <<>>
    /\ processed = {}
    /\ newly_processed = {}
    /\ llm_res = Unbound
    /\ last = NothingYet
    /\ llm_first = [i \in Ids |-> NoCallYet]
    /\ handled = {}
    /\ RuleIdle

Next == StartRun \/ SkipProcessed \/ ClassifyAndStore \/ FinishRun

Spec == Init /\ [][Next]_vars

-----------------------------------------------------------------------------
(* explain and score_email as functions of their arguments                 *)

\* The texts made of some of the phrases ps[1..n], in order, a blank between
RECURSIVE PhraseTexts(_, _)
PhraseTexts(ps, n) ==
    IF n = 0 THEN {<<>>}
    ELSE LET shorter == PhraseTexts(ps, n - 1)
         IN  shorter \cup
             {IF t = <<>> THEN ps[n] ELSE t \o <<" ">> \o ps[n] : t \in shorter}

\* One phrase for each keyword tier (a built-in keyword of the tier)
SubjectPhrases ==
    << <<"Interview">>, <<"deadline">>, <<"internship">>, <<"congratulations">> >>

\* A date, an applied company, a personal identifier
BodyPhrases == << <<"tomorrow">>, <<"Nvidia">>, <<"Kislay">> >>

RuleSubjects == PhraseTexts(SubjectPhrases, Len(SubjectPhrases))

RuleBodies == PhraseTexts(BodyPhrases, Len(BodyPhrases))

\* The addresses a From header may carry
RuleAddresses ==
    { <<"VITLIONS2026", "@", "vitbhopal.ac.in">>,
      <<"bob", "@", "other.org">>,
      <<"cdc", "@", "other.org">> }

\* The display names, with the blank that follows them
RuleDisplayNames ==
    { <<>>, <<"Bob", " ">>, <<"Helpdesk", " ", "CDC", " ">>, <<"Placement", "Office", ",">> }

\* From headers: a display name, then no address, a bare address, an address
\* in angle brackets, or empty brackets
RuleHeaders ==
    UNION { {d, d \o <<"<", ">">>}
            \cup {d \o a : a \in RuleAddresses}
            \cup {d \o <<"<">> \o a \o <<">">> : a \in RuleAddresses}
          : d \in RuleDisplayNames }

RuleToLists == { <<>>, <<"KislayTiwari2022", "@", "vitbhopal.ac.in">> }

\* The keyword lists a caller may supply: absent, empty, one keyword a tier
\* (the super keyword with an upper-case letter)
RuleKeywordLists ==
    { [super |-> None, urgent |-> None, mid |-> None, trash |-> None],
      [super |-> Some(<<>>), urgent |-> Some(<<>>), mid |-> Some(<<>>),
       trash |-> Some(<<>>)],
      [super |-> Some(<< <<"Interview">> >>), urgent |-> Some(<< <<"deadline">> >>),
       mid |-> Some(<< <<"internship">> >>),
       trash |-> Some(<< <<"congratulations">> >>)] }

RuleSenderLists == { None, Some(DEFAULT_PLACEMENT_SENDERS) }

RuleInputs ==
    { [subject |-> su, body |-> bo, sender_header |-> h, to_list |-> to,
       applied_companies |-> << <<"Nvidia">>, <<"PTC", " ", "India">> >>,
       placement_senders |-> ps,
       super_keywords |-> kw.super, urgent_keywords |-> kw.urgent,
       mid_keywords |-> kw.mid, trash_keywords |-> kw.trash]
      : su \in RuleSubjects, bo \in RuleBodies, h \in RuleHeaders,
        to \in RuleToLists, ps \in RuleSenderLists, kw \in RuleKeywordLists }

BatchIdle ==
    /\ inbox = [i \in Ids |-> Message(FromStranger, <<>>, <<>>)]
    /\ cfg = CHOOSE c \in Configs : c.keyword_rows = <<>>
    /\ emails = [i \in Ids |-> 0]
    /\ llm_cache = [i \in Ids |-> FileMissing]
    /\ pc = "idle"
    /\ runs = 0
    /\ msgs = <<>>
    /\ processed = {}
    /\ newly_processed = {}
    /\ llm_res = Unbound
    /\ last = NothingYet
    /\ llm_first = [i \in Ids |-> NoCallYet]
    /\ handled = {}

\* What the calls returned: the score, its label and the explanation
RuleResult(s, e) ==
    [done |-> TRUE, score |-> s, label |-> classify_from_score(s),
     explanation |-> e]

\* A call of score_email, of classify_from_score on its result, and of
\* explain, with the same arguments
CallRules ==
    /\ ~rule_out.done
    /\ rule_out' = RuleResult(score_email(rule_in), explain(rule_in))
    /\ UNCHANGED <<rule_in, batch_vars>>

InitRules ==
    /\ rule_in \in RuleInputs
    /\ rule_out = NoRuleResult
    /\ BatchIdle

NextRules == CallRules

SpecRules == InitRules /\ [][NextRules]_vars

-----------------------------------------------------------------------------
(* Properties                                                              *)

\* The severity of a label: trash=0 < low=1 < mid=2 < urgent=3 <
\* super_urgent=4, the label of the top band counted as classify_from_score
\* spells it.
Severity(label) ==
    CASE label \in {"super_urgent", "super urgent"} -> 4
      [] label = "urgent" -> 3
      [] label = "mid"    -> 2
      [] label = "low"    -> 1
      [] OTHER            -> 0

\* The text of the reason of a verdict, "" for null
ReasonText(d) ==
    IF d["reason"].t = "str" /\ d["reason"].v # "" THEN <<d["reason"].v>> ELSE <<>>

\* The latest iteration got a verdict from the LLM and stored a record.
Reconciled == last.kind = "stored" /\ last.llm_called /\ Truthy(last.llm.ret)

\* With the empty to_list that main passes, no sum of weights is the
\* double 0.85: a score in the band never carries the label of the top
\* band.  (Holds under SpecRules, where the to_list varies.)
TopBandNeverReconciledInMain ==
    (rule_out.done /\ rule_in.to_list = <<>>)
        => ~(NeedsLlm(rule_out.explanation)
             /\ rule_out.explanation.label = "super urgent")

\* C1: reconciliation is escalation-only.  For every message for which the
\* LLM returned a verdict, the final label is never less severe than the
\* label of explain; it is the LLM urgency, with an "llm_override: ..."
\* reason appended, exactly when that urgency is strictly more severe than
\* the label of explain, and otherwise it is the label of explain, with an
\* "llm_supplement: ..." reason appended.
C1_EscalationOnly ==
    Reconciled =>
        LET d == last.llm.ret.d
            u == d["urgency"].v
        IN  /\ Severity(last.label) >= Severity(last.rule.label)
            /\ IF Severity(u) > Severity(last.rule.label)
               THEN /\ last.label = u
                    /\ last.reasons =
                         Append(last.rule.reasons,
                                <<"llm_override: ">> \o ReasonText(d))
               ELSE /\ last.label = last.rule.label
                    /\ last.reasons =
                         Append(last.rule.reasons,
                                <<"llm_supplement: ">> \o ReasonText(d))

\* A message that the rules call urgent and the LLM calls low stays urgent.
C1_Witness ==
    /\ Reconciled
    /\ last.rule.label = "urgent"
    /\ last.llm.ret.d["urgency"].v = "low"
    /\ last.label = "urgent"
    /\ Len(last.reasons) = Len(last.rule.reasons) + 1

\* The six labels of a classified record
Labels == {"super_urgent", "urgent", "mid", "low", "trash", "others"}

\* C2: the label of every classified record, both the label returned by
\* explain and the final label after reconciliation in main, is one of the
\* six values super_urgent, urgent, mid, low, trash, others.
C2_LabelIsOneOfSix ==
    last.kind = "stored" =>
        /\ last.rule.label \in Labels
        /\ last.label \in Labels
        /\ last.db_record.category \in Labels

\* C3: for all inputs score_email returns a score in [0,1]: the sum of the
\* weights is clamped to 0 when negative and to 1 when above 1.
C3_ScoreInUnitInterval ==
    rule_out.done =>
        /\ DblLe(D_0_0, rule_out.score)
        /\ DblLe(rule_out.score, D_1_0)
        /\ DblIsNeg(RawScore(rule_in)) => rule_out.score = D_0_0
        /\ DblLt(D_1_0, RawScore(rule_in)) => rule_out.score = D_1_0
        /\ (DblLe(D_0_0, RawScore(rule_in)) /\ DblLe(RawScore(rule_in), D_1_0))
              => rule_out.score = RawScore(rule_in)

\* A sum of weights above 1 came back as 1.
C3_Witness ==
    /\ rule_out.done
    /\ DblLt(D_1_0, RawScore(rule_in))
    /\ rule_out.score = D_1_0

\* The five ordinal labels
OrdinalLabels == {"super_urgent", "urgent", "mid", "low", "trash"}

\* The label of the band of a score, bands inclusive at their lower bound
BandLabel(s) ==
    IF DblLe(D_0_85, s) THEN "super_urgent"
    ELSE IF DblLe(D_0_65, s) THEN "urgent"
    ELSE IF DblLe(D_0_4, s) THEN "mid"
    ELSE IF DblLe(D_0_15, s) THEN "low"
    ELSE "trash"

\* The scores that the label of a score is compared with
ReferenceScores ==
    {D_0_0, D_0_05, D_0_15, D_0_2, D_0_25, D_0_3, D_0_35, D_0_4, D_0_45,
     D_0_6, D_0_65, D_0_85, D_1_0}

\* C4: classify_from_score maps every score in [0,1] to exactly one of the
\* five ordinal labels, the bands inclusive at their lower bound (>= 0.85
\* super_urgent, >= 0.65 urgent, >= 0.40 mid, >= 0.15 low, else trash), and
\* the mapping is monotonic: s1 <= s2 implies that the label of s1 is not
\* more severe, by severity_order, than the label of s2.
C4_FiveOrdinalBands ==
    rule_out.done =>
        /\ rule_out.label \in OrdinalLabels
        /\ rule_out.label = BandLabel(rule_out.score)
        /\ \A t \in ReferenceScores :
              /\ DblLe(t, rule_out.score) =>
                    SeverityGet(classify_from_score(t)) <= SeverityGet(rule_out.label)
              /\ DblLe(rule_out.score, t) =>
                    SeverityGet(rule_out.label) <= SeverityGet(classify_from_score(t))

\* The sender of the call is no placement sender: the address of the header
\* is not in the allowlist and the lowercased header holds none of the
\* placement-indicator substrings.
NotFromPlacement ==
    LET allowlist == LowerStripAll(OrDefault(rule_in.placement_senders,
                                             DEFAULT_PLACEMENT_SENDERS))
    IN  /\ \A n \in 1..Len(allowlist) :
              allowlist[n] # extract_email_from_header(rule_in.sender_header)
        /\ \A n \in 1..Len(placement_keywords) :
              ~Contains(Lower(rule_in.sender_header), placement_keywords[n])

\* C5: the non-placement short-circuit.  For a header whose address is not
\* in the allowlist and which holds no placement-indicator substring,
\* explain returns label "others", score 0.0, is_placement_sender false and
\* exactly one reason, whatever the subject, body, companies and tiers.
C5_NonPlacementShortCircuit ==
    (rule_out.done /\ NotFromPlacement) =>
        /\ ~rule_out.explanation.raised
        /\ rule_out.explanation.label = "others"
        /\ rule_out.explanation.score = D_0_0
        /\ ~rule_out.explanation.is_placement_sender
        /\ Len(rule_out.explanation.reasons) = 1

\* A stranger's message about an interview tomorrow, from a company applied
\* to, was labelled "others" with score 0.
C5_Witness ==
    /\ rule_out.done
    /\ NotFromPlacement
    /\ Contains(TextOf(rule_in.subject, rule_in.body), <<"interview">>)
    /\ Contains(TextOf(rule_in.subject, rule_in.body), <<"tomorrow">>)
    /\ Contains(TextOf(rule_in.subject, rule_in.body), <<"nvidia">>)
    /\ DblLt(D_0_85, score_email(rule_in))
    /\ rule_out.explanation.label = "others"
    /\ rule_out.explanation.score = D_0_0

\* The rule score of the latest iteration lies in [0.45, 0.85].
InBand == DblLe(D_0_45, last.rule.score) /\ DblLe(last.rule.score, D_0_85)

\* C6: in the batch loop the LLM classifier is invoked for a message only
\* when explain reported a placement sender and the rule score lies in
\* [0.45, 0.85]; for the other messages no LLM call is made and the label
\* and the reasons are exactly those returned by explain.
C6_LlmOnlyInBand ==
    last.kind \in {"stored", "crashed"} =>
        /\ last.llm_called => (last.rule.is_placement_sender /\ InBand)
        /\ ~(last.rule.is_placement_sender /\ InBand) =>
              /\ ~last.llm_called
              /\ last.llm.calls = 0
              /\ last.kind = "stored" =>
                    /\ last.label = last.rule.label
                    /\ last.reasons = last.rule.reasons

\* A placement message just under the band (0.3 + 0.15 in doubles is
\* 0.44999999999999996) was stored with the label and reasons of explain
\* and without a call.
C6_Witness ==
    /\ last.kind = "stored"
    /\ last.rule.is_placement_sender
    /\ DblLt(D_0_4, last.rule.score)
    /\ DblLt(last.rule.score, D_0_45)
    /\ ~last.llm_called
    /\ last.label = "mid"

\* The first call of classify_with_llm for the id of the latest iteration
FirstCall == llm_first[last.id]

\* C7, as first stated: whatever the first call of classify_with_llm for a
\* message id returned, a later call (force = false) for the same id
\* returns the same and makes no call to the provider.
C7_AnyOutcomeIsReplayed ==
    (last.again /\ ~FirstCall.raised) =>
        /\ ~last.llm.raised
        /\ last.llm.calls = 0
        /\ last.llm.ret = FirstCall.ret

\* C7: cache determinism.  When the first call of classify_with_llm for a
\* message id returned a verdict, every later call (force = false) for the
\* same id returns the identical verdict and makes no call to the provider.
C7_VerdictIsReplayed ==
    (last.again /\ ~FirstCall.raised /\ Truthy(FirstCall.ret)) =>
        /\ ~last.llm.raised
        /\ last.llm.calls = 0
        /\ last.llm.ret = FirstCall.ret

\* A message was classified a second time and the verdict of the first
\* call came from the cache.
C7_Witness ==
    /\ last.again
    /\ ~FirstCall.raised
    /\ Truthy(FirstCall.ret)
    /\ last.llm.path = "hit"
    /\ last.llm.ret = FirstCall.ret

\* C8: when the first reply fails to parse or validate and the repair
\* attempt fails too (provider error or schema violation),
\* classify_with_llm returns the default verdict and stores it in the cache
\* under the message id, and every later call (force = false) for the id
\* returns the default verdict without a call to the provider.
C8_FallbackReturnedAndCached ==
    /\ (last.llm_called /\ last.llm.path \in {"fallback_error", "fallback_invalid"}) =>
          /\ ~last.llm.raised
          /\ last.llm.ret = Dict(Fallback)
          /\ last.llm.file = FileOf(Fallback)
    /\ (last.again /\ ~FirstCall.raised /\ FirstCall.ret = Dict(Fallback)) =>
          /\ ~last.llm.raised
          /\ last.llm.calls = 0
          /\ last.llm.ret = Dict(Fallback)

\* C9: a failure to write the result cache or the raw-reply debug files
\* during classify_with_llm never aborts the classification of the message:
\* the call still returns its verdict and the loop still stores a record.
C9_WriteFailureSwallowed ==
    /\ (last.llm_called /\ last.llm.write_failed) =>
          /\ ~last.llm.raised
          /\ Truthy(last.llm.ret)
          /\ last.kind = "stored"
    /\ (last.llm_called /\ last.llm.debug_failed /\ ~last.llm.write_failed
          /\ last.llm.path # "validate_raised") =>
          ~last.llm.raised

\* Some message that the latest iteration left to visit is not processed.
WorkPending == \E n \in 1..Len(last.pending) : last.pending[n] \notin processed

\* C10: per-message failure isolation.  An error raised while one message
\* is classified never keeps the loop from the remaining messages of the
\* batch: after it the loop goes on with them.
C10_FailureIsolation ==
    (last.kind = "crashed" /\ WorkPending) =>
        /\ pc = "loop"
        /\ msgs = last.pending

\* The latest iteration called classify_with_llm, whose first provider call
\* failed: the call returned None.
NoVerdict ==
    /\ last.llm_called
    /\ ~last.llm.raised
    /\ ~last.llm.ret.has

\* C11: when classify_with_llm returns no verdict (the first provider call
\* failed), reconciliation is skipped: the record is stored with the label of
\* explain and with the reasons of explain, nothing appended.
C11_NoVerdictNoReconciliation ==
    NoVerdict =>
        /\ last.llm.path = "error"
        /\ last.kind = "stored"
        /\ last.label = last.rule.label
        /\ last.reasons = last.rule.reasons
        /\ last.db_record.category = last.rule.label
        /\ last.db_record.reasons = last.rule.reasons

\* A message in the band was stored as the rules labelled it after the
\* provider call failed.
C11_Witness ==
    /\ NoVerdict
    /\ last.kind = "stored"
    /\ last.llm.calls = 1
    /\ last.label = "mid"
    /\ last.reasons = last.rule.reasons

\* C12: a message id is classified at most once.  Over any sequence of
\* runs, also when the insertion of a record fails, an id that was
\* classified and handed to the store is never classified again, at most
\* one row is stored for it, and an id in processed is skipped without a
\* call of explain, of the LLM or of the store.
C12_ClassifiedAtMostOnce ==
    /\ last.kind \in {"stored", "crashed"} => ~last.repeat
    /\ \A i \in Ids : emails[i] <= 1
    /\ last.kind = "skipped" =>
          /\ last.id \in processed
          /\ last.rule = NotExplained
          /\ ~last.llm_called
          /\ ~last.inserted

\* The text of a call holds a keyword of the super tier, of the trash tier,
\* as score_email reads the tiers.
SuperMatched(a) ==
    AnyIn(LowerAll(OrDefault(a.super_keywords, SUPER_KEYWORDS)),
          TextOf(a.subject, a.body))

TrashMatched(a) ==
    AnyIn(LowerAll(OrDefault(a.trash_keywords, TRASH_KEYWORDS)),
          TextOf(a.subject, a.body))

\* A subject without its trash phrase "congratulations" (the last phrase of
\* a subject) and the blank before it.
DropTrashPhrase(subject) ==
    IF subject = <<>> \/ subject[Len(subject)] # "congratulations" THEN subject
    ELSE IF Len(subject) = 1 THEN <<>>
    ELSE SubSeq(subject, 1, Len(subject) - 2)

\* The same call with the trash match removed from the message
WithoutTrash(a) == [a EXCEPT !.subject = DropTrashPhrase(a.subject)]

\* C13: trash-keyword dominance.  For every combination of the other
\* signals, a message that matches a super keyword and a trash keyword gets
\* a clamped score strictly lower than the same message without the trash
\* match, all other signals unchanged.
C13_TrashDominance ==
    (rule_out.done /\ SuperMatched(rule_in) /\ TrashMatched(rule_in)) =>
        /\ ~TrashMatched(WithoutTrash(rule_in))
        /\ SuperMatched(WithoutTrash(rule_in))
        /\ WithoutTrash(rule_in).body = rule_in.body
        /\ DblLt(rule_out.score, score_email(WithoutTrash(rule_in)))
        /\ rule_out.explanation.is_placement_sender =>
              DblLt(rule_out.explanation.score,
                    score_email(WithoutTrash(rule_in)))

\* A message with every signal: without the trash match the sum is above 1
\* and the score is 1.0, with it the score is lower.
C13_Witness ==
    /\ rule_out.done
    /\ SuperMatched(rule_in)
    /\ TrashMatched(rule_in)
    /\ IsPlacement(rule_in)
    /\ DblLt(D_1_0, RawScore(WithoutTrash(rule_in)))
    /\ score_email(WithoutTrash(rule_in)) = D_1_0
    /\ DblLt(rule_out.score, D_1_0)

\* The label of a score by given thresholds, the labels as
\* classify_from_score writes them
LabelBy(t, score) ==
    IF DblLe(t.super, score) THEN "super urgent"
    ELSE IF DblLe(t.urgent, score) THEN "urgent"
    ELSE IF DblLe(t.mid, score) THEN "mid"
    ELSE IF DblLe(t.low, score) THEN "low"
    ELSE "trash"

\* C14: the thresholds are overridable via config.  The label that explain
\* gives the score of a placement message in a run is the label of the
\* score by the thresholds of the configuration.
C14_ConfiguredThresholds ==
    (last.kind = "stored" /\ last.rule.is_placement_sender) =>
        last.rule.label = LabelBy(cfg.thresholds, last.rule.score)

\* The boost that score_email added for a keyword tier of a call (0.0 when
\* no tier matched), and whether it applied the trash penalty
BoostOf(a) ==
    KeywordBoost(LowerAll(OrDefault(a.super_keywords, SUPER_KEYWORDS)),
                 LowerAll(OrDefault(a.urgent_keywords, URGENT_KEYWORDS)),
                 LowerAll(OrDefault(a.mid_keywords, MID_KEYWORDS)),
                 TextOf(a.subject, a.body))

HasReason(r) ==
    \E n \in 1..Len(rule_out.explanation.reasons) :
        rule_out.explanation.reasons[n] = <<r>>

\* C15: reasons and score stay consistent for placement senders.  For every
\* input and every supplied tier configuration, the reasons of explain hold
\* "super keyword found" / "urgent keyword found" / "mid keyword found" /
\* "congratulatory/trash keyword" exactly when that tier gave its bonus or
\* penalty to the score.
C15_ReasonsMatchScore ==
    (rule_out.done /\ rule_out.explanation.is_placement_sender) =>
        /\ HasReason("super keyword found") <=> BoostOf(rule_in) = D_0_45
        /\ HasReason("urgent keyword found") <=> BoostOf(rule_in) = D_0_25
        /\ HasReason("mid keyword found") <=> BoostOf(rule_in) = D_0_15
        /\ HasReason("congratulatory/trash keyword") <=> TrashMatched(rule_in)


\* A call that leaves at least one keyword tier out
TierAbsent(a) ==
    \/ ~a.super_keywords.some
    \/ ~a.urgent_keywords.some
    \/ ~a.mid_keywords.some
    \/ ~a.trash_keywords.some

\* C16: when a keyword tier is not supplied by the caller, explain for a
\* placement sender falls back to the built-in list of that tier and returns
\* a result, with the score that score_email computes from the defaults; it
\* never fails because a tier list is missing.
C16_AbsentTierFallsBack ==
    (rule_out.done /\ IsPlacement(rule_in) /\ TierAbsent(rule_in)) =>
        /\ ~rule_out.explanation.raised
        /\ rule_out.explanation.is_placement_sender
        /\ rule_out.explanation.score = rule_out.score


\* The paths of classify_with_llm that went through the repair attempt
RepairPaths == { "repaired", "fallback_error", "fallback_invalid" }

\* C17: one call of classify_with_llm asks the provider at most twice: not
\* at all on a cache hit, once when the first reply parses and validates,
\* and exactly once more after a first reply that fails to parse or
\* validate; there is no third call, whatever the repair call returns.
C17_AtMostTwoProviderCalls ==
    last.llm_called =>
        /\ last.llm.calls \in 0..2
        /\ last.llm.calls = 0 <=> last.llm.path = "hit"
        /\ last.llm.path = "hit" =>
               /\ Truthy(_read_cache(last.llm.file))
               /\ last.llm.ret = _read_cache(last.llm.file)
        /\ last.llm.path = "first" => last.llm.calls = 1
        /\ last.llm.path \in RepairPaths => last.llm.calls = 2
        /\ last.llm.calls = 2 =>
               last.llm.path \in RepairPaths \cup {"validate_raised"}

C17_Witness ==
    /\ last.llm_called
    /\ last.llm.path = "fallback_invalid"
    /\ last.llm.calls = 2
    /\ ~last.llm.raised
    /\ last.llm.ret = Dict(Fallback)


\* A step of the loop whose call of classify_with_llm ended at the failure
\* of the first provider call
ProviderErrorStep ==
    /\ last'.llm_called
    /\ last'.llm.path = "error"

\* A step of the loop that calls classify_with_llm for a message id whose
\* cache file holds no verdict
UncachedCallStep ==
    /\ msgs' # msgs
    /\ last'.llm_called
    /\ ~Truthy(_read_cache(llm_cache[last'.id]))

\* C18: when the first provider call of classify_with_llm fails, the call
\* returns no verdict (None, without raising), makes no repair call and
\* leaves the result cache as it was; and a call for a message id whose
\* cache holds no verdict, as after such a failure, asks the provider.
C18_ProviderErrorLeavesNoTrace ==
    [][ /\ ProviderErrorStep =>
              /\ ~last'.llm.raised
              /\ last'.llm.ret = NoDict
              /\ last'.llm.calls = 1
              /\ ~last'.llm.write_failed
              /\ llm_cache' = llm_cache
        /\ UncachedCallStep => last'.llm.calls >= 1 ]_vars

\* The provider failed at the first call for a message id; the next call
\* for the same id asked the provider again.
C18_Witness ==
    /\ last.again
    /\ ~FirstCall.raised
    /\ FirstCall.ret = NoDict
    /\ last.llm.calls >= 1
    /\ llm_cache[last.id] = last.llm.file


\* C19: in a run, the stored record of a message has llm_used = true or
\* llm_notes that are not null only if classify_with_llm was called for that
\* same message and returned a verdict; a message the LLM was not consulted
\* for is stored with llm_used = false and llm_notes = null, also when an
\* earlier message of the run obtained a verdict.
C19_LlmFieldsAreOfThisMessage ==
    last.kind = "stored" =>
        /\ (last.db_record.llm_used \/ last.db_record.llm_notes # NoDict) =>
               /\ last.llm_called
               /\ ~last.llm.raised
               /\ Truthy(last.llm.ret)
               /\ last.db_record.llm_notes = last.llm.ret
        /\ ~last.llm_called =>
               /\ ~last.db_record.llm_used
               /\ last.db_record.llm_notes = NoDict

=============================================================================
